---------------------------- MODULE Spec2Model ----------------------------
(***************************************************************************)
(* Cost-based hybrid planner of cbo_proxy.py: the decision function        *)
(* get_cbo_decision, the two plan executors execute_plan_a and             *)
(* execute_plan_b, the script entry point of cbo_proxy.py and the calls    *)
(* other modules make after `import cbo_proxy`.                            *)
(*                                                                         *)
(* Costs are fixed-point numbers in hundredths of a PostgreSQL cost unit   *)
(* (0.01 is 1, 600.0 is 60000), so that the shipped coefficient 0.01 is    *)
(* an integer.  Embeddings are one-dimensional integers and the distance   *)
(* operator <-> is the absolute difference.                                *)
(***************************************************************************)
EXTENDS Integers, Sequences, FiniteSets

VARIABLES
    pc,                 \* where the process is: start, imported, main_*
    sql_filter_string,  \* module global of cbo_proxy (set only by the script)
    v_query,            \* module global of cbo_proxy (set only by the script)
    decision,           \* module global of cbo_proxy (set only by the script)
    costModel,          \* the tuning parameters C_VEC_CPU_COST, COST_B_FIXED
    kCandidates,        \* the tuning parameter K_CANDIDATES
    products,           \* the rows of table products in the store
    openConns,          \* store connections currently open
    last,               \* the last completed call and its outcome
    queries,            \* the query units served side by side in one process
    rr,                 \* a re-ranking pass: its input, modifier text and outputs
    calib,              \* a calibration run: its measurements and its outcome
    parse,              \* a prompt, the conditions found in it and the filter built
    ingest              \* a bulk ingestion run: its counters, batch and writes

\* The variables of the other specifications of this module
otherVars == <<queries, rr, calib, parse, ingest>>

vars == <<pc, sql_filter_string, v_query, decision, costModel, kCandidates,
          products, openConns, last, otherVars>>

---------------------------------------------------------------------------
(* Bounds and program constants *)

\* number of rows of table products
NumRows == 12

\* cbo_proxy.py:35, C_VEC_CPU_COST = 0.01, in hundredths
C_VEC_CPU_COST == 1

\* cbo_proxy.py:40, COST_B_FIXED = 600.0, in hundredths
COST_B_FIXED == 60000

\* cbo_proxy.py:43
K_CANDIDATES == 1000

\* cbo_proxy.py:146, LIMIT 10 of query_a
PLAN_A_LIMIT == 10

\* cbo_proxy.py:190, LIMIT 10 of query_b
PLAN_B_LIMIT == 10

\* experiment_1_accuracy.py:22, the limit its calls ask for
TOP_K == 20

\* The tunings of the cost model: the shipped one, and perRowVectorCost = 2
\* (200 hundredths) with the shipped fixed cost.
CostModels ==
    { [perRow |-> C_VEC_CPU_COST, fixed |-> COST_B_FIXED],
      [perRow |-> 200,            fixed |-> COST_B_FIXED] }

\* The tunings of the candidate window: the shipped one and two small ones
\* that cut into a table of NumRows rows.
KSettings == {K_CANDIDATES, 2, 11}

---------------------------------------------------------------------------
(* Values *)

\* Python's None and an unbound module global
None  == "<None>"
Unset == "<unbound>"

P_EMPTY == ""
P_TRUE  == "1 = 1"
P_BRAND == "brand = 'A'"
P_CHEAP == "sales_price < 300"
P_WIDE  == "sales_price BETWEEN 0.0 AND 26000.0"
P_BAD   == "brand = "

\* The filter strings a caller passes
Filters == {None, P_EMPTY, P_TRUE, P_BRAND, P_CHEAP, P_WIDE, P_BAD}

\* Query vectors; NoVector is the None get_query_vector returns on failure
NoVector == -1
Vectors  == {0, 3, NumRows + 1}

\* query_parser.get_sql_filter: prompts are sequences of words

\* Most phrases a prompt is made of
MaxSegments == 2

\* Phrases of a prompt: filler, price phrases (complete, without a second
\* bound, without an operator), brand phrases (with =, with is, bare, without
\* a name)
Segments ==
    { <<"a", "red", "dress">>,
      <<"under", "500">>,
      <<"price", "<", "300">>,
      <<"price", ">", "1000">>,
      <<"price", "between", "100", "and", "500">>,
      <<"price", "between", "100">>,
      <<"price", "500">>,
      <<"brand", "=", "A">>,
      <<"brand", "is", "nike">>,
      <<"brand", "gucci">>,
      <<"brand", "is">>,
      <<"brand">> }

RECURSIVE Concat(_)
Concat(ss) == IF ss = <<>> THEN <<>> ELSE ss[1] \o Concat(Tail(ss))

Prompts ==
    { Concat(ss) : ss \in UNION { [1..n -> Segments] : n \in 0..MaxSegments } }

\* \d+
IsNumber(t) == t \in {"100", "300", "500", "1000"}

\* A word made of the characters of [a-zA-Z0-9\s']
IsNameWord(t) == t \notin {"<", ">", "="}

\* sep.join(words)
RECURSIVE Join(_, _)
Join(words, sep) ==
    IF words = <<>> THEN ""
    ELSE IF Len(words) = 1 THEN words[1]
    ELSE words[1] \o sep \o Join(Tail(words), sep)

\* The least position of a non-empty set of positions
First(S) == CHOOSE i \in S : \A j \in S : i <= j

\* query_parser.py:114, re.search of price\s*(<|>|BETWEEN)\s*(\d+): the
\* leftmost position the pattern matches at, 0 when none
price_match(p) ==
    LET hits == { i \in 1..(Len(p) - 2) :
                    /\ p[i] = "price"
                    /\ p[i + 1] \in {"<", ">", "between"}
                    /\ IsNumber(p[i + 2]) }
    IN  IF hits = {} THEN 0 ELSE First(hits)

\* query_parser.py:115-123
PriceConditions(p) ==
    LET i        == price_match(p)
        operator == p[i + 1]
        val1     == p[i + 2]
        hasVal2  == i + 4 <= Len(p) /\ p[i + 3] = "and" /\ IsNumber(p[i + 4])
    IN  IF i = 0 THEN <<>>
        ELSE IF operator = "between" /\ hasVal2
        THEN << [column |-> "sales_price", op |-> "BETWEEN", v1 |-> val1,
                 v2 |-> p[i + 4], name |-> ""] >>
        ELSE IF operator \in {"<", ">"}
        THEN << [column |-> "sales_price", op |-> operator, v1 |-> val1,
                 v2 |-> "", name |-> ""] >>
        ELSE <<>>

\* The longest run of name words of p from position j on
NameRun(p, j) ==
    LET stops == { k \in j..Len(p) : ~IsNameWord(p[k]) }
        end   == IF stops = {} THEN Len(p) ELSE First(stops) - 1
    IN  SubSeq(p, j, end)

\* The name the pattern brand\s*(=|is)?\s*\'?([a-zA-Z0-9\s']+)\'? captures at
\* position i, <<>> when it does not match there
NameAt(p, i) ==
    IF p[i] # "brand" \/ i = Len(p) THEN <<>>
    ELSE IF p[i + 1] = "=" THEN NameRun(p, i + 2)
    ELSE IF p[i + 1] = "is" /\ NameRun(p, i + 2) # <<>> THEN NameRun(p, i + 2)
    ELSE NameRun(p, i + 1)

\* query_parser.py:127-132
BrandConditions(p) ==
    LET hits == { i \in 1..Len(p) : NameAt(p, i) # <<>> }
    IN  IF hits = {} THEN <<>>
        ELSE << [column |-> "brand", op |-> "=", v1 |-> "", v2 |-> "",
                 name |-> Join(NameAt(p, First(hits)), " ")] >>

\* query_parser.py:121, 123, 132: the text of one condition
Render(c) ==
    IF c.column = "brand" THEN "brand = '" \o c.name \o "'"
    ELSE IF c.op = "BETWEEN"
    THEN "sales_price BETWEEN " \o c.v1 \o " AND " \o c.v2
    ELSE "sales_price " \o c.op \o " " \o c.v1

\* query_parser.py:110-132, sql_conditions
sql_conditions(p) == PriceConditions(p) \o BrandConditions(p)

\* Mutation of NoConditionFilter: the same condition written without spaces
NoConditionFilterTight == "1=1"

\* query_parser.py:137
NoConditionFilter == "1 = 1"

\* query_parser.py:135-141
get_sql_filter(p) ==
    LET conds == sql_conditions(p)
    IN  IF conds = <<>> THEN NoConditionFilter
        ELSE Join([i \in 1..Len(conds) |-> Render(conds[i])], " AND ")

\* No ingestion run under way
NoIngest ==
    [stage |-> "none", read |-> 0, data_to_insert |-> <<>>, processed_count |-> 0,
     insert_count |-> 0, skip_count |-> 0, written |-> <<>>, aborted |-> FALSE,
     caught |-> ""]

\* No prompt parsed
NoParse == [stage |-> "none", prompt |-> <<>>, conditions |-> <<>>, filter |-> ""]

\* The conditions get_sql_filter builds from the prompts: comparisons of a
\* column with numbers or with a quoted name
ParsedFilters ==
    { get_sql_filter(p) : p \in { q \in Prompts : sql_conditions(q) # <<>> } }

\* The strings PostgreSQL accepts after WHERE
Valid(f) == f \in {P_TRUE, P_BRAND, P_CHEAP, P_WIDE} \cup ParsedFilters

\* Whether row r satisfies the accepted filter f
Sat(f, r) ==
    CASE f = P_TRUE  -> TRUE
      [] f = P_BRAND -> r.brand = "A"
      [] f = P_CHEAP -> r.sales_price < 300
      [] f = P_WIDE  -> r.sales_price >= 0 /\ r.sales_price <= 26000
      [] OTHER       -> FALSE

BrandOf(i) == IF i % 3 = 0 THEN "B" ELSE "A"

ProductRows ==
    { [uniq_id |-> i, brand |-> BrandOf(i), sales_price |-> 100 * i,
       embedding |-> i] : i \in 1..NumRows }

Abs(x) == IF x < 0 THEN -x ELSE x

\* embedding <-> %s
Distance(r, q) == Abs(r.embedding - q)

\* SELECT uniq_id, brand, sales_price, (embedding <-> %s) AS similarity_score
Project(r, q) ==
    [uniq_id |-> r.uniq_id, brand |-> r.brand, sales_price |-> r.sales_price,
     similarity_score |-> Distance(r, q)]

Min(a, b) == IF a < b THEN a ELSE b

Prefix(s, n) == SubSeq(s, 1, Min(n, Len(s)))

\* ORDER BY similarity_score ASC over the projected rows S: every order the
\* store may return, rows of equal score in either order
RECURSIVE OrderBy(_)
OrderBy(S) ==
    IF S = {} THEN {<<>>}
    ELSE LET least == {r \in S : \A o \in S : r.similarity_score <= o.similarity_score}
         IN  UNION { { <<r>> \o t : t \in OrderBy(S \ {r}) } : r \in least }

\* The query units one process serves side by side
QueryIds == {1, 2}

\* A query unit before it starts: its predicate and vector (cbo_proxy.py:256-257),
\* its decision (267) and its results (272-275)
NewQuery(f, q) ==
    [stage |-> "new", filter |-> f, v |-> q, plan |-> "", results |-> <<>>,
     caught |-> ""]

NoQueries == [i \in QueryIds |-> NewQuery(Unset, NoVector)]

\* No re-ranking pass under way
NoRerank == [stage |-> "none", text |-> {}, input |-> <<>>, once |-> <<>>,
             twice |-> <<>>]

\* No exchange rate computed
NoRate == [ms |-> 0, cost |-> 0]

\* No calibration run under way
NoCalibration ==
    [stage |-> "none", a |-> 0, b |-> 0, exact |-> FALSE, trials |-> <<>>,
     time_small |-> 0, time_large |-> 0, index_times |-> <<>>,
     real_time |-> 0, predicted_cost |-> 0,
     op |-> "none", fitted |-> FALSE, slopeNum |-> 0, slopeDen |-> 1,
     avgNum |-> 0, avgDen |-> 1, exchange_rate |-> NoRate,
     coefficient |-> "", costNum |-> 0, costDen |-> 1,
     recommended |-> FALSE, warned |-> FALSE, caught |-> "", raised |-> ""]

---------------------------------------------------------------------------
(* The record of a call *)

NoReply == [hasRows |-> FALSE, hasCost |-> FALSE, rows |-> 0, cost |-> 0]

\* What the store's planner may answer to EXPLAIN (FORMAT JSON): Plan Rows and
\* Total Cost (hundredths), either of which may be missing from the reply
EstRows  == {0, 50, 100, 50000}
EstCosts == {500, 5000, 59900, 60000}
Replies ==
    { [hasRows |-> TRUE, hasCost |-> TRUE, rows |-> n, cost |-> c] :
          n \in EstRows, c \in EstCosts }
    \cup { [hasRows |-> FALSE, hasCost |-> TRUE,  rows |-> 0, cost |-> 500],
           [hasRows |-> TRUE,  hasCost |-> FALSE, rows |-> 50, cost |-> 0] }

Blank ==
    [op |-> "none", filter |-> Unset, v |-> NoVector, k |-> 0, limit |-> 0,
     outcome |-> "none", raised |-> "", caught |-> "", plan |-> "",
     results |-> <<>>, connects |-> 0, closes |-> 0, requests |-> <<>>,
     estimated |-> FALSE, reply |-> NoReply, up |-> FALSE]

---------------------------------------------------------------------------
(* get_cbo_decision *)

\* The no-filter test without its "1 = 1" case
IsNoFilterEmptyOnly(f) == f = None \/ f = ""

\* cbo_proxy.py:60, the no-filter test
IsNoFilter(f) == f = None \/ f = "" \/ f = "1 = 1"

\* Score(A) with the per-row term subtracted
Score_aMinusRows(reply) == reply.cost - (reply.rows * costModel.perRow)

\* Score(A) without the per-row term
Score_aCostOnly(reply) == reply.cost

\* cbo_proxy.py:90, Score(A)
Score_a(reply) == reply.cost + (reply.rows * costModel.perRow)

\* cbo_proxy.py:93, Score(B)
Score_b == costModel.fixed

\* The comparison with the two plans swapped
ChoosePlanSwapped(reply) == IF Score_a(reply) < Score_b THEN "PLAN_B" ELSE "PLAN_A"

\* The comparison with <= for <
ChoosePlanLe(reply) == IF Score_a(reply) <= Score_b THEN "PLAN_A" ELSE "PLAN_B"

\* cbo_proxy.py:100-105, the comparison
ChoosePlan(reply) == IF Score_a(reply) < Score_b THEN "PLAN_A" ELSE "PLAN_B"

\* The handler re-raising what it caught
DecisionReraise(rec, e) == [rec EXCEPT !.outcome = "raised", !.raised = e]

\* cbo_proxy.py:107-110, except Exception: log and fall back to plan B
DecisionExcept(rec, e) ==
    [rec EXCEPT !.outcome = "returned", !.caught = e, !.plan = "PLAN_B"]

\* The finally clause leaving the connection open
FinallyNoClose(rec) == rec

\* cbo_proxy.py:117-119 (and 161-163, 206-208), finally: if conn: conn.close()
Finally(rec) == [rec EXCEPT !.closes = rec.connects]

\* cursor.execute on a connection opened by psycopg2.connect(**DB_SETTINGS)
\* (cbo_proxy.py:67 and 77, 132 and 153, 176 and 196): DB_SETTINGS carries no
\* timeout, so a request the store never answers is waited for without end
Blocked(rec) == [rec EXCEPT !.outcome = "blocked"]

\* Mutation of EstimateRequests: the estimate also runs the statement
EstimateRequestsAnalyze == <<"EXPLAIN ANALYZE">>

\* cbo_proxy.py:73-77, what the decision sends to the store: one
\* EXPLAIN (FORMAT JSON) of the filtered selection
EstimateRequests == <<"EXPLAIN">>

\* The call get_cbo_decision(f): up tells whether the store accepts the
\* connection, answers whether it ever answers the request, reply is what its
\* planner answers to EXPLAIN.
get_cbo_decision(f, up, answers, reply) ==
    LET base == [Blank EXCEPT !.op = "get_cbo_decision", !.filter = f, !.up = up]
        conn == [base EXCEPT !.connects = 1]
        sent == [conn EXCEPT !.requests = EstimateRequests]
        got  == [sent EXCEPT !.reply = reply]
    IN  IF IsNoFilter(f)
        THEN [base EXCEPT !.outcome = "returned", !.plan = "PLAN_B"]
        ELSE IF ~up
        THEN Finally(DecisionExcept(base, "OperationalError"))
        ELSE IF ~answers
        THEN Blocked(sent)
        ELSE IF ~Valid(f)
        THEN Finally(DecisionExcept(sent, "ProgrammingError"))
        ELSE IF ~reply.hasRows \/ ~reply.hasCost
        THEN Finally(DecisionExcept(got, "KeyError"))
        ELSE Finally([got EXCEPT !.estimated = TRUE, !.outcome = "returned",
                                 !.plan = ChoosePlan(reply)])

---------------------------------------------------------------------------
(* execute_plan_a and execute_plan_b *)

\* cbo_proxy.py:158-160 and 203-205, except Exception: log and return []
ExecutionExcept(rec, e) ==
    [rec EXCEPT !.outcome = "returned", !.caught = e, !.results = <<>>]

\* cbo_proxy.py:141-147, query_a: WHERE, ORDER BY similarity_score ASC, LIMIT 10
QueryA(f, q) ==
    { Prefix(s, PLAN_A_LIMIT) :
        s \in OrderBy({ Project(r, q) : r \in {x \in products : Sat(f, x)} }) }

\* cbo_proxy.py:182-187, the CTE VectorSearch: ORDER BY similarity_score ASC
\* LIMIT k over the whole table
VectorSearch(q, k) ==
    { Prefix(w, k) : w \in OrderBy({ Project(r, q) : r \in products }) }

\* The outer selection handing the surviving rows back last-first
ScanWhereReversed(window, f) ==
    LET kept == SelectSeq(window, LAMBDA r : Sat(f, r))
    IN  [i \in 1..Len(kept) |-> kept[Len(kept) + 1 - i]]

\* cbo_proxy.py:188-189, SELECT * FROM VectorSearch WHERE filter: the store
\* scans the window in the order the CTE produced it
ScanWhere(window, f) == SelectSeq(window, LAMBDA r : Sat(f, r))

\* query_b with the filter moved into the CTE, applied before LIMIT k
QueryBFilterFirst(f, q, k) ==
    { Prefix(Prefix(s, k), PLAN_B_LIMIT) :
        s \in OrderBy({ Project(r, q) : r \in {x \in products : Sat(f, x)} }) }

\* cbo_proxy.py:181-194, query_b
QueryB(f, q, k) ==
    { Prefix(ScanWhere(w, f), PLAN_B_LIMIT) : w \in VectorSearch(q, k) }

\* The filter text the executors format into their query: the name they read
\* (cbo_proxy.py:147 and 193) is the module global, not their parameter
FormattedFilter(sql_filter) == sql_filter_string

\* cursor.execute(query, (str(v_query),)) and fetchall (cbo_proxy.py:153-155
\* and 196-199): the row sequences the store may answer
Answers(request, text, q, k) ==
    IF request = "SELECT_A" THEN QueryA(text, q) ELSE QueryB(text, q, k)

\* The body of an executor from the connection on (cbo_proxy.py:130-163 and
\* 174-208): every outcome the call can have
RunQuery(base, sql_filter, up, answers, request) ==
    LET conn == [base EXCEPT !.connects = 1]
        sent == [conn EXCEPT !.requests = <<request>>]
        text == FormattedFilter(sql_filter)
    IN  IF ~up
        THEN {Finally(ExecutionExcept(base, "OperationalError"))}
        ELSE IF text = Unset
        THEN {Finally(ExecutionExcept(conn, "NameError"))}
        ELSE IF text = None
        THEN {Finally(ExecutionExcept(conn, "TypeError"))}
        ELSE IF ~answers
        THEN {Blocked(sent)}
        ELSE IF ~Valid(text)
        THEN {Finally(ExecutionExcept(sent, "ProgrammingError"))}
        ELSE { Finally([sent EXCEPT !.outcome = "returned", !.results = rows]) :
                 rows \in Answers(request, text, base.v, base.k) }

\* A call that passes a keyword the signature does not have (limit # 0 stands
\* for limit=..., limit_n=...) raises TypeError before the body runs
\* (cbo_proxy.py:122 and 166)
BadKeyword(base) == [base EXCEPT !.outcome = "raised", !.raised = "TypeError"]

\* The call execute_plan_a(sql_filter, v_query [, limit=...])
execute_plan_a(sql_filter, q, limit, up, answers) ==
    LET base == [Blank EXCEPT !.op = "execute_plan_a", !.filter = sql_filter,
                              !.v = q, !.limit = limit, !.up = up]
    IN  IF limit # 0 THEN {BadKeyword(base)}
        ELSE RunQuery(base, sql_filter, up, answers, "SELECT_A")

\* The call execute_plan_b(sql_filter, v_query, k [, limit=...])
execute_plan_b(sql_filter, q, k, limit, up, answers) ==
    LET base == [Blank EXCEPT !.op = "execute_plan_b", !.filter = sql_filter,
                              !.v = q, !.k = k, !.limit = limit, !.up = up]
    IN  IF limit # 0 THEN {BadKeyword(base)}
        ELSE RunQuery(base, sql_filter, up, answers, "SELECT_B")

---------------------------------------------------------------------------
(* The process *)

Init ==
    /\ pc = "start"
    /\ sql_filter_string = Unset
    /\ v_query = NoVector
    /\ decision = ""
    /\ costModel \in CostModels
    /\ kCandidates \in KSettings
    /\ products = ProductRows
    /\ openConns = 0
    /\ last = Blank
    /\ queries = NoQueries
    /\ rr = NoRerank
    /\ calib = NoCalibration
    /\ parse = NoParse
    /\ ingest = NoIngest

Account(rec) == openConns' = openConns + rec.connects - rec.closes

\* Where the process stands after a call: a call that waits for the store
\* without end never hands control back
After(rec, next) == IF rec.outcome = "blocked" THEN "blocked" ELSE next

\* A decision or execution retuning the cost model as it goes
ModelFrameRetunes ==
    /\ costModel' = [costModel EXCEPT !.perRow = 200 + C_VEC_CPU_COST - costModel.perRow]
    /\ UNCHANGED kCandidates

\* cbo_proxy.py:46-208: no function assigns C_VEC_CPU_COST, COST_B_FIXED or
\* K_CANDIDATES
ModelFrame == UNCHANGED <<costModel, kCandidates>>

\* Mutation of StoreFrame: a request removes the row with the least uniq_id
StoreFrameDeletes ==
    products' = { r \in products : \E x \in products : x.uniq_id < r.uniq_id }

\* cbo_proxy.py:73, 141-147, 181-194: EXPLAIN and SELECT only
StoreFrame == UNCHANGED products

\* Mutation of Dispatch: the other executor
DispatchSwapped(d, f, q, up, answers) ==
    IF d = "PLAN_A"
    THEN execute_plan_b(f, q, kCandidates, 0, up, answers)
    ELSE execute_plan_a(f, q, 0, up, answers)

\* cbo_proxy.py:272-275: if decision == "PLAN_A": execute_plan_a(...) else:
\* execute_plan_b(...)
Dispatch(d, f, q, up, answers) ==
    IF d = "PLAN_A"
    THEN execute_plan_a(f, q, 0, up, answers)
    ELSE execute_plan_b(f, q, kCandidates, 0, up, answers)

\* python cbo_proxy.py, lines 256-261: the query vector, the module global
\* sql_filter_string = USER_SQL_FILTER, and the exit when there is no vector
MainStart(f, q) ==
    /\ pc = "start"
    /\ v_query' = q
    /\ sql_filter_string' = f
    /\ pc' = IF q = NoVector THEN "main_exit" ELSE "main_ready"
    /\ UNCHANGED <<decision, costModel, kCandidates, products, openConns, last>>
    /\ UNCHANGED otherVars

\* cbo_proxy.py:267
MainDecide(up, answers, reply) ==
    /\ pc = "main_ready"
    /\ last' = get_cbo_decision(sql_filter_string, up, answers, reply)
    /\ decision' = last'.plan
    /\ Account(last')
    /\ pc' = After(last', "main_decided")
    /\ ModelFrame
    /\ StoreFrame
    /\ UNCHANGED <<sql_filter_string, v_query>>
    /\ UNCHANGED otherVars

\* cbo_proxy.py:272-275
MainExecute(up, answers) ==
    /\ pc = "main_decided"
    /\ last' \in Dispatch(decision, sql_filter_string, v_query, up, answers)
    /\ Account(last')
    /\ pc' = After(last', "main_done")
    /\ ModelFrame
    /\ StoreFrame
    /\ UNCHANGED <<sql_filter_string, v_query, decision>>
    /\ UNCHANGED otherVars

\* import cbo_proxy from another module (run_final_comprehensive.py:9,
\* experiment_1_accuracy.py:8): the __main__ block does not run
Import ==
    /\ pc = "start"
    /\ pc' = "imported"
    /\ UNCHANGED <<sql_filter_string, v_query, decision, costModel, kCandidates,
                   products, openConns, last>>
    /\ UNCHANGED otherVars

\* cbo_proxy.get_cbo_decision(sql_filter) called by an importing module
CallDecision(f, up, answers, reply) ==
    /\ pc = "imported"
    /\ last' = get_cbo_decision(f, up, answers, reply)
    /\ Account(last')
    /\ pc' = After(last', pc)
    /\ ModelFrame
    /\ StoreFrame
    /\ UNCHANGED <<sql_filter_string, v_query, decision>>
    /\ UNCHANGED otherVars

\* cbo_proxy.execute_plan_a(sql_filter, v_query [, limit=TOP_K])
CallPlanA(f, q, limit, up, answers) ==
    /\ pc = "imported"
    /\ last' \in execute_plan_a(f, q, limit, up, answers)
    /\ Account(last')
    /\ pc' = After(last', pc)
    /\ ModelFrame
    /\ StoreFrame
    /\ UNCHANGED <<sql_filter_string, v_query, decision>>
    /\ UNCHANGED otherVars

\* cbo_proxy.execute_plan_b(sql_filter, v_query [, limit=TOP_K])
CallPlanB(f, q, limit, up, answers) ==
    /\ pc = "imported"
    /\ last' \in execute_plan_b(f, q, kCandidates, limit, up, answers)
    /\ Account(last')
    /\ pc' = After(last', pc)
    /\ ModelFrame
    /\ StoreFrame
    /\ UNCHANGED <<sql_filter_string, v_query, decision>>
    /\ UNCHANGED otherVars

Next ==
    \/ \E f \in Filters, q \in Vectors \cup {NoVector} : MainStart(f, q)
    \/ \E up \in BOOLEAN, answers \in BOOLEAN, reply \in Replies :
           MainDecide(up, answers, reply)
    \/ \E up \in BOOLEAN, answers \in BOOLEAN : MainExecute(up, answers)
    \/ Import
    \/ \E f \in Filters, up \in BOOLEAN, answers \in BOOLEAN, reply \in Replies :
           CallDecision(f, up, answers, reply)
    \/ \E f \in Filters, q \in Vectors, limit \in {0, TOP_K}, up \in BOOLEAN,
          answers \in BOOLEAN : CallPlanA(f, q, limit, up, answers)
    \/ \E f \in Filters, q \in Vectors, limit \in {0, TOP_K}, up \in BOOLEAN,
          answers \in BOOLEAN : CallPlanB(f, q, limit, up, answers)

Spec == Init /\ [][Next]_vars

---------------------------------------------------------------------------
(* Properties of get_cbo_decision *)

\* The predicates that mean "no filter": None, the empty string and the
\* tautology 1 = 1 the query parser emits
NoFilterForms == {None, P_EMPTY, P_TRUE}

DecisionCall == last.op = "get_cbo_decision"

\* The call came back to its caller, with a value or an exception
Finished == last.outcome \in {"returned", "raised"}

\* C1: for every empty or tautological predicate get_cbo_decision returns
\* PLAN_B at once: no store connection is opened and no estimate is requested.
C1_NoFilterIsVectorFirst ==
    (DecisionCall /\ last.filter \in NoFilterForms) =>
        /\ last.outcome = "returned"
        /\ last.plan = "PLAN_B"
        /\ last.connects = 0
        /\ last.requests = <<>>
        /\ ~last.estimated

C1_Witness ==
    /\ DecisionCall
    /\ last.filter = P_TRUE
    /\ last.up
    /\ last.plan = "PLAN_B"
    /\ last.connects = 0

\* C2: when the estimate of a non-empty predicate was obtained, the decision
\* is PLAN_A iff filter cost + row count * per-row cost < fixed index cost,
\* and PLAN_B in every other case.
C2_FilterFirstIffCheaper ==
    (DecisionCall /\ last.estimated) =>
        /\ last.outcome = "returned"
        /\ last.plan \in {"PLAN_A", "PLAN_B"}
        /\ last.plan = "PLAN_A" <=>
             last.reply.cost + last.reply.rows * costModel.perRow < costModel.fixed

C2_Witness ==
    /\ DecisionCall
    /\ last.estimated
    /\ last.filter = P_CHEAP
    /\ last.reply.rows = 50
    /\ last.reply.cost = 500
    /\ last.plan = "PLAN_A"

\* C3: an estimate whose filter-first score equals the fixed index cost
\* exactly is decided vector-first.
C3_TieIsVectorFirst ==
    ( /\ DecisionCall
      /\ last.estimated
      /\ last.reply.cost + last.reply.rows * costModel.perRow = costModel.fixed )
    => last.plan = "PLAN_B"

C3_Witness ==
    /\ DecisionCall
    /\ last.estimated
    /\ last.reply.rows = 100
    /\ last.reply.cost = 59900
    /\ costModel.perRow = C_VEC_CPU_COST
    /\ last.plan = "PLAN_B"

\* C4: a failure of the estimate step (connection refused, predicate rejected
\* by the store, reply without row count or cost) never leaves
\* get_cbo_decision: the call returns PLAN_B.
C4_EstimateFailureIsVectorFirst ==
    (DecisionCall /\ Finished /\ last.filter \notin NoFilterForms /\ ~last.estimated) =>
        /\ last.outcome = "returned"
        /\ last.raised = ""
        /\ last.plan = "PLAN_B"

C4_Witness ==
    /\ DecisionCall
    /\ last.filter = P_BRAND
    /\ last.up
    /\ last.requests = <<"EXPLAIN">>
    /\ ~last.reply.hasRows
    /\ ~last.estimated
    /\ last.caught = "KeyError"
    /\ last.plan = "PLAN_B"

\* C5: with per-row cost 2 and fixed index cost 600 the estimate
\* {rows: 50, filterCost: 5} is decided filter-first and the estimate
\* {rows: 50000, filterCost: 50} vector-first.
C5_EndToEndScenarios ==
    ( /\ DecisionCall
      /\ last.estimated
      /\ costModel.perRow = 200
      /\ costModel.fixed = 60000 )
    => /\ (last.reply.rows = 50 /\ last.reply.cost = 500) => last.plan = "PLAN_A"
       /\ (last.reply.rows = 50000 /\ last.reply.cost = 5000) => last.plan = "PLAN_B"

C5_Witness ==
    /\ DecisionCall
    /\ last.estimated
    /\ costModel.perRow = 200
    /\ costModel.fixed = 60000
    /\ last.reply.rows = 50000
    /\ last.reply.cost = 5000
    /\ last.plan = "PLAN_B"

---------------------------------------------------------------------------
(* Properties of the plan executors *)

PlanACall == last.op = "execute_plan_a"
PlanBCall == last.op = "execute_plan_b"

\* The limit a call asks for: its keyword, or the executor's own LIMIT
RequestedLimit(rec, default) == IF rec.limit = 0 THEN default ELSE rec.limit

NonDecreasing(rows) ==
    \A i \in 1..(Len(rows) - 1) :
        rows[i].similarity_score <= rows[i + 1].similarity_score

AllSatisfy(rows, f) == \A i \in 1..Len(rows) : Sat(f, rows[i])

\* C6: for every predicate, query vector and requested limit execute_plan_a
\* returns a sequence of at most the requested limit, every record of which
\* satisfies the predicate, with non-decreasing similarity scores.
C6_FilterFirstAnswer ==
    (PlanACall /\ Finished) =>
        /\ last.outcome = "returned"
        /\ Len(last.results) <= RequestedLimit(last, PLAN_A_LIMIT)
        /\ AllSatisfy(last.results, last.filter)
        /\ NonDecreasing(last.results)

\* C7: for every predicate, query vector, window size K and requested limit
\* execute_plan_b returns at most limit records, no more than K, every one of
\* which satisfies the predicate.
C7_VectorFirstAnswer ==
    (PlanBCall /\ Finished) =>
        /\ last.outcome = "returned"
        /\ Len(last.results) <= RequestedLimit(last, PLAN_B_LIMIT)
        /\ Len(last.results) <= last.k
        /\ AllSatisfy(last.results, last.filter)

\* C8: the sequence execute_plan_b returns is non-decreasing in similarity
\* score, the filter and the truncation coming after the window was ranked.
C8_VectorFirstOrdered ==
    (PlanBCall /\ last.outcome = "returned") => NonDecreasing(last.results)

C8_Witness ==
    /\ PlanBCall
    /\ last.outcome = "returned"
    /\ last.filter = P_BRAND
    /\ last.k = 11
    /\ Len(last.results) >= 3
    /\ last.results[2].uniq_id = 2
    /\ last.results[3].uniq_id = 4
    /\ last.results[2].similarity_score < last.results[3].similarity_score

\* C9: with m records among the K nearest rows satisfying the predicate,
\* execute_plan_b returns exactly those m records and no error when m is below
\* the requested limit, and exactly limit records when m >= limit.
C9_VectorFirstUnderfill ==
    (PlanBCall /\ Finished /\ last.up /\ Valid(last.filter)) =>
        /\ last.outcome = "returned"
        /\ last.caught = ""
        /\ \E w \in VectorSearch(last.v, last.k) :
             LET sat   == {i \in 1..Len(w) : Sat(last.filter, w[i])}
                 m     == Cardinality(sat)
                 limit == RequestedLimit(last, PLAN_B_LIMIT)
             IN  IF m < limit
                 THEN /\ Len(last.results) = m
                      /\ {last.results[i] : i \in 1..m} = {w[i] : i \in sat}
                 ELSE Len(last.results) = limit

\* The rows of the table strictly nearer to q than a row at distance d
Nearer(q, d) == {x \in products : Distance(x, q) < d}

\* C10: every record execute_plan_b returns is one of the K rows nearest to
\* the query vector over the whole table, K being the configured window
\* whatever the predicate; a row outside the K nearest is never returned.
C10_VectorFirstWithinWindow ==
    (PlanBCall /\ last.outcome = "returned") =>
        /\ last.k = kCandidates
        /\ \A i \in 1..Len(last.results) :
             /\ \E r \in products : Project(r, last.v) = last.results[i]
             /\ Cardinality(Nearer(last.v, last.results[i].similarity_score)) < last.k

C10_Witness ==
    /\ PlanBCall
    /\ last.outcome = "returned"
    /\ Len(last.results) >= 1
    /\ \E r \in products :
         /\ Sat(last.filter, r)
         /\ Cardinality(Nearer(last.v, Distance(r, last.v))) >= last.k
         /\ \A i \in 1..Len(last.results) : last.results[i].uniq_id # r.uniq_id

---------------------------------------------------------------------------
(* Failures, connections, waiting and the configuration *)

ExecCall == PlanACall \/ PlanBCall

\* C11: an executor returns the empty sequence only when the store query
\* succeeded and produced no rows; a failed store round trip is surfaced to
\* the caller as an error, never swallowed into an empty result.
C11_FailureIsSurfaced ==
    (ExecCall /\ Finished /\ last.limit = 0) =>
        /\ ~last.up => last.outcome = "raised"
        /\ (last.outcome = "returned" /\ last.results = <<>>) =>
               (last.requests # <<>> /\ last.caught = "")

\* C12: every call opens at most one store connection and has closed it when
\* it returns, on every exit path; between calls no connection is open.
C12_ConnectionsReleased ==
    /\ last.connects <= 1
    /\ Finished => last.closes = last.connects
    /\ pc # "blocked" => openConns = 0

C12_Witness ==
    /\ PlanBCall
    /\ Finished
    /\ last.caught = "NameError"
    /\ last.connects = 1
    /\ last.closes = 1
    /\ openConns = 0

\* C13: no call waits for the store without end: every round trip has a
\* bounded timeout, so every call made comes back to its caller.
C13_NoCallBlocks == last.op # "none" => Finished

\* C14: no sequence of decisions and executions, successful or failing,
\* changes the cost model or the window size K.
C14_ConfigurationReadOnly ==
    [][costModel' = costModel /\ kCandidates' = kCandidates]_vars

C14_Witness ==
    /\ pc = "main_done"
    /\ decision = "PLAN_A"
    /\ PlanACall
    /\ last.caught = "OperationalError"
    /\ costModel.perRow = C_VEC_CPU_COST
    /\ costModel.fixed = COST_B_FIXED
    /\ kCandidates = K_CANDIDATES

---------------------------------------------------------------------------
(* Two query units in one process *)

\* The estimate the store's planner gives for a predicate: its statistics do
\* not change while the two queries run (cbo_proxy.py:77-83)
EstimateOf(f) ==
    CASE f = P_CHEAP -> [hasRows |-> TRUE, hasCost |-> TRUE, rows |-> 50, cost |-> 500]
      [] f = P_BRAND -> [hasRows |-> TRUE, hasCost |-> TRUE, rows |-> 50000, cost |-> 5000]
      [] OTHER       -> [hasRows |-> TRUE, hasCost |-> TRUE, rows |-> 50000, cost |-> 59900]

\* The predicates of the two queries: accepted by the store, and different
ConcFilters == {P_CHEAP, P_BRAND, P_WIDE}

InitConc ==
    /\ pc = "serving"
    /\ sql_filter_string = Unset
    /\ v_query = NoVector
    /\ decision = ""
    /\ costModel \in CostModels
    /\ kCandidates \in KSettings
    /\ products = ProductRows
    /\ openConns = 0
    /\ last = Blank
    /\ queries \in [QueryIds -> {NewQuery(f, q) : f \in ConcFilters, q \in {0, 3}}]
    /\ \A i, j \in QueryIds : i # j => queries[i].filter # queries[j].filter
    /\ rr = NoRerank
    /\ calib = NoCalibration
    /\ parse = NoParse
    /\ ingest = NoIngest

\* cbo_proxy.py:257 for query i: sql_filter_string = <the query's predicate>,
\* the name both executors read
QBind(i) ==
    /\ queries[i].stage = "new"
    /\ sql_filter_string' = queries[i].filter
    /\ queries' = [queries EXCEPT ![i].stage = "bound"]
    /\ UNCHANGED <<pc, v_query, decision, costModel, kCandidates, products,
                   openConns, last, rr, calib, parse, ingest>>

\* cbo_proxy.py:267 for query i, the store reachable and answering
QDecide(i) ==
    /\ queries[i].stage = "bound"
    /\ last' = get_cbo_decision(queries[i].filter, TRUE, TRUE,
                                EstimateOf(queries[i].filter))
    /\ queries' = [queries EXCEPT ![i].stage = "decided", ![i].plan = last'.plan]
    /\ Account(last')
    /\ ModelFrame
    /\ StoreFrame
    /\ UNCHANGED <<pc, sql_filter_string, v_query, decision, rr, calib, parse, ingest>>

\* cbo_proxy.py:272-275 for query i, the store reachable and answering
QExecute(i) ==
    /\ queries[i].stage = "decided"
    /\ IF queries[i].plan = "PLAN_A"
       THEN last' \in execute_plan_a(queries[i].filter, queries[i].v, 0, TRUE, TRUE)
       ELSE last' \in execute_plan_b(queries[i].filter, queries[i].v, kCandidates,
                                     0, TRUE, TRUE)
    /\ queries' = [queries EXCEPT ![i].stage = "done",
                                  ![i].results = last'.results,
                                  ![i].caught = last'.caught]
    /\ Account(last')
    /\ ModelFrame
    /\ StoreFrame
    /\ UNCHANGED <<pc, sql_filter_string, v_query, decision, rr, calib, parse, ingest>>

NextConc ==
    \/ \E i \in QueryIds : QBind(i)
    \/ \E i \in QueryIds : QDecide(i)
    \/ \E i \in QueryIds : QExecute(i)

SpecConc == InitConc /\ [][NextConc]_vars

\* What query (f, q) gets when it runs alone against the same store
AlonePlan(f) == IF f = P_TRUE \/ Score_a(EstimateOf(f)) >= Score_b
                THEN "PLAN_B" ELSE "PLAN_A"

AloneResults(f, q) ==
    IF AlonePlan(f) = "PLAN_A"
    THEN { Prefix(s, PLAN_A_LIMIT) :
             s \in OrderBy({ Project(r, q) : r \in {x \in products : Sat(f, x)} }) }
    ELSE { Prefix(SelectSeq(Prefix(w, kCandidates), LAMBDA r : Sat(f, r)), PLAN_B_LIMIT) :
             w \in OrderBy({ Project(r, q) : r \in products }) }

\* C15: in every interleaving of two queries with different predicates each
\* query's decision and result are those of running that query alone.
C15_QueriesIndependent ==
    \A i \in QueryIds :
        queries[i].stage = "done" =>
            /\ queries[i].plan = AlonePlan(queries[i].filter)
            /\ queries[i].caught = ""
            /\ queries[i].results \in AloneResults(queries[i].filter, queries[i].v)

---------------------------------------------------------------------------
(* The re-ranking pass (spec 4.4): cbo_proxy.rerank_by_color, called at
   experiment_1_accuracy.py:149 *)

\* Longest result sequence handed to the pass
MaxResults == 3

\* The keyword table, scanned in this order: a category and its keywords
KeywordTable ==
    << [category |-> "black", words |-> {"black", "dark"}],
       [category |-> "red",   words |-> {"red", "crimson"}],
       [category |-> "blue",  words |-> {"blue", "navy"}] >>

\* Modifier texts, as the words they contain: one keyword, none, keywords of
\* two categories, a second keyword of a later category
ModifierTexts ==
    { {"i", "want", "a", "black", "long", "skirt"},
      {"a", "long", "skirt"},
      {"red", "or", "black"},
      {"crimson", "dress"} }

\* Records of a result set: identifier, the words of the record's text, and
\* the similarity score the executor computed (ties included)
ResultPool ==
    { [uniq_id |-> 1, words |-> {"black", "skirt"}, similarity_score |-> 1],
      [uniq_id |-> 2, words |-> {"red", "dress"},   similarity_score |-> 1],
      [uniq_id |-> 3, words |-> {"dark", "jeans"},  similarity_score |-> 2],
      [uniq_id |-> 4, words |-> {"blue", "shirt"},  similarity_score |-> 2],
      [uniq_id |-> 5, words |-> {"black", "coat"},  similarity_score |-> 2] }

\* What an executor hands over: distinct records in ascending score order,
\* tied records in any order
RankedResultSets ==
    { s \in UNION { [1..n -> ResultPool] : n \in 0..MaxResults } :
        /\ \A i, j \in 1..Len(s) : i # j => s[i] # s[j]
        /\ \A i \in 1..(Len(s) - 1) :
               s[i].similarity_score <= s[i + 1].similarity_score }

\* Mutation of DetectTarget: falls back to the first category
DetectTargetDefaultFirst(text) ==
    LET hits == { i \in 1..Len(KeywordTable) : KeywordTable[i].words \cap text # {} }
    IN  IF hits = {} THEN 1 ELSE First(hits)

\* The target category: the first category of the table one of whose keywords
\* occurs in the text, 0 when none does
DetectTarget(text) ==
    LET hits == { i \in 1..Len(KeywordTable) : KeywordTable[i].words \cap text # {} }
    IN  IF hits = {} THEN 0 ELSE First(hits)

\* The record's text matches a keyword of the target category
Matches(rec, target) == KeywordTable[target].words \cap rec.words # {}

\* Mutation of MatchFlag: non-matches first
MatchFlagInverted(rec, target) == IF Matches(rec, target) THEN 1 ELSE 0

\* First component of the sort key
MatchFlag(rec, target) == IF Matches(rec, target) THEN 0 ELSE 1

\* (flag, similarityScore) of a before that of b
KeyLess(a, b, target) ==
    \/ MatchFlag(a, target) < MatchFlag(b, target)
    \/ /\ MatchFlag(a, target) = MatchFlag(b, target)
       /\ a.similarity_score < b.similarity_score

\* Mutation of Insert: a record goes before the records of equal key
InsertBeforeEqual(sorted, x, target) ==
    LET later == { i \in 1..Len(sorted) : ~KeyLess(sorted[i], x, target) }
        at    == IF later = {} THEN Len(sorted) + 1 ELSE First(later)
    IN  SubSeq(sorted, 1, at - 1) \o <<x>> \o SubSeq(sorted, at, Len(sorted))

\* One step of the stable sort: x goes after every record whose key is not
\* greater than its own
Insert(sorted, x, target) ==
    LET later == { i \in 1..Len(sorted) : KeyLess(x, sorted[i], target) }
        at    == IF later = {} THEN Len(sorted) + 1 ELSE First(later)
    IN  SubSeq(sorted, 1, at - 1) \o <<x>> \o SubSeq(sorted, at, Len(sorted))

RECURSIVE StableSort(_, _)
StableSort(results, target) ==
    IF results = <<>> THEN <<>>
    ELSE Insert(StableSort(SubSeq(results, 1, Len(results) - 1), target),
                results[Len(results)], target)

rerank_by_color(results, text) ==
    LET target == DetectTarget(text)
    IN  IF target = 0 THEN results ELSE StableSort(results, target)

InitRerank ==
    /\ pc = "reranking"
    /\ sql_filter_string = Unset
    /\ v_query = NoVector
    /\ decision = ""
    /\ costModel = [perRow |-> C_VEC_CPU_COST, fixed |-> COST_B_FIXED]
    /\ kCandidates = K_CANDIDATES
    /\ products = ProductRows
    /\ openConns = 0
    /\ last = Blank
    /\ queries = NoQueries
    /\ calib = NoCalibration
    /\ parse = NoParse
    /\ ingest = NoIngest
    /\ rr \in { [stage |-> "input", text |-> t, input |-> s, once |-> <<>>,
                 twice |-> <<>>] : t \in ModifierTexts, s \in RankedResultSets }

RerankFrame ==
    UNCHANGED <<pc, sql_filter_string, v_query, decision, costModel, kCandidates,
                products, openConns, last, queries, calib, parse, ingest>>

\* experiment_1_accuracy.py:149: results_c = rerank_by_color(results_c, text)
Rerank ==
    /\ rr.stage = "input"
    /\ rr' = [rr EXCEPT !.stage = "once", !.once = rerank_by_color(rr.input, rr.text)]
    /\ RerankFrame

\* The pass applied to its own output with the same modifier text
RerankAgain ==
    /\ rr.stage = "once"
    /\ rr' = [rr EXCEPT !.stage = "twice", !.twice = rerank_by_color(rr.once, rr.text)]
    /\ RerankFrame

NextRerank == Rerank \/ RerankAgain

SpecRerank == InitRerank /\ [][NextRerank]_vars

Reranked == rr.stage \in {"once", "twice"}

Elements(s) == { s[i] : i \in 1..Len(s) }

\* C16: applying the re-ranking pass twice with the same modifier text yields
\* the same sequence as applying it once.
C16_RerankIdempotent == rr.stage = "twice" => rr.twice = rr.once

C16_Witness ==
    /\ rr.stage = "twice"
    /\ DetectTarget(rr.text) # 0
    /\ rr.once # rr.input
    /\ \E i, j \in 1..Len(rr.input) :
           /\ i # j
           /\ rr.input[i].similarity_score = rr.input[j].similarity_score
           /\ Matches(rr.input[i], DetectTarget(rr.text))
           /\ Matches(rr.input[j], DetectTarget(rr.text))

\* No keyword of any category of the table occurs in the text
NoKeyword(text) ==
    \A i \in 1..Len(KeywordTable) : KeywordTable[i].words \cap text = {}

\* C17: when no keyword of the table is detected in the modifier text the pass
\* returns its input unchanged: same records, same order, same scores.
C17_NoKeywordUnchanged ==
    (Reranked /\ NoKeyword(rr.text)) => rr.once = rr.input

C17_Witness ==
    /\ rr.stage = "once"
    /\ NoKeyword(rr.text)
    /\ \E i, j \in 1..Len(rr.input) : i < j /\ ~Matches(rr.input[i], 1)
                                           /\ Matches(rr.input[j], 1)

\* C18: when a target category is detected the output is a permutation of the
\* input with the same scores, every matching record precedes every
\* non-matching one, and each of the two groups keeps its input order.
C18_StablePartition ==
    (Reranked /\ DetectTarget(rr.text) # 0) =>
        LET target == DetectTarget(rr.text) IN
        /\ Len(rr.once) = Len(rr.input)
        /\ Elements(rr.once) = Elements(rr.input)
        /\ \A i, j \in 1..Len(rr.once) :
               (Matches(rr.once[i], target) /\ ~Matches(rr.once[j], target)) => i < j
        /\ SelectSeq(rr.once, LAMBDA r : Matches(r, target))
             = SelectSeq(rr.input, LAMBDA r : Matches(r, target))
        /\ SelectSeq(rr.once, LAMBDA r : ~Matches(r, target))
             = SelectSeq(rr.input, LAMBDA r : ~Matches(r, target))

C18_Witness ==
    /\ rr.stage = "once"
    /\ DetectTarget(rr.text) # 0
    /\ Len(rr.input) = MaxResults
    /\ ~Matches(rr.input[1], DetectTarget(rr.text))
    /\ \E i, j \in 1..Len(rr.input) : i < j /\ Matches(rr.input[i], DetectTarget(rr.text))
                                           /\ Matches(rr.input[j], DetectTarget(rr.text))

---------------------------------------------------------------------------
(* Calibration of the per-row cost: calibrate_cost.run_calibration and
   calibrate_parameters.run_benchmark *)

\* calibrate_cost.py:45
N_values == <<100, 500, 1000, 2000, 5000, 10000, 20000>>

\* calibrate_cost.py:58: trials per size, averaged
NUM_TRIALS == 5

\* calibrate_hnsw.py:40: probes of the similarity index, averaged
HNSW_TRIALS == 10

\* calibrate_parameters.py:160: probes of the similarity index, averaged
FIXED_TRIALS == 5

\* calibrate_parameters.py:37-38
SMALL_BATCH == 100

LARGE_BATCH == 10000

\* The sizes are whole multiples of RowUnit rows; the sums of the fit are taken
\* over N / RowUnit and the unit is put back into the denominator
RowUnit == 100

\* Slopes and intercepts of the timing data (time units per row, time units);
\* every measured time is positive
Slopes == {-1, 0, 1, 2}

Intercepts == {20100, 30000}

\* A disturbance of one measurement: none, or the measurement at one size off
\* by a few time units
Disturbances ==
    {[at |-> 0, by |-> 0]}
        \cup { [at |-> i, by |-> d] : i \in 1..Len(N_values), d \in {-3, 2} }

\* Time of one probe of the similarity index, in time units
IndexTimes == {6, 40}

\* The reference operation of the unit conversion: measured time and the
\* store's cost estimate for it, in hundredths (calibrate_parameters.py:104-114)
ReferenceRuns == { [real_time |-> 8, predicted_cost |-> 1600] }

RECURSIVE SumSeq(_)
SumSeq(s) == IF s = <<>> THEN 0 ELSE s[1] + SumSeq(Tail(s))

\* sum(trials) at each size: NUM_TRIALS times the mean of calibrate_cost.py:79
TrialSums(trials) == [i \in 1..Len(trials) |-> SumSeq(trials[i])]

Units(xs) == [i \in 1..Len(xs) |-> xs[i] \div RowUnit]

Dot(xs, ys) == SumSeq([i \in 1..Len(xs) |-> xs[i] * ys[i]])

\* Mutation of SlopeNum: a fit through the origin
SlopeNumNoIntercept(xs, ys) == Len(xs) * Dot(Units(xs), ys)

\* np.polyfit(x, y, 1)[0] = (n Sxy - Sx Sy) / (n Sxx - Sx Sx): numerator and
\* denominator, y given as the trial sums
SlopeNum(xs, ys) ==
    Len(xs) * Dot(Units(xs), ys) - SumSeq(Units(xs)) * SumSeq(ys)

SlopeDen(xs) ==
    NUM_TRIALS * RowUnit
        * (Len(xs) * Dot(Units(xs), Units(xs)) - SumSeq(Units(xs)) * SumSeq(Units(xs)))

\* calibrate_cost.py:34-113
run_calibration(c, up) ==
    IF ~up
    THEN [c EXCEPT !.stage = "done", !.op = "run_calibration",
                   !.caught = "OperationalError"]
    ELSE LET num == SlopeNum(N_values, TrialSums(c.trials))
             den == SlopeDen(N_values)
         IN  [c EXCEPT !.stage = "done", !.op = "run_calibration",
                       !.fitted = TRUE, !.slopeNum = num, !.slopeDen = den,
                       !.coefficient = "C_VEC_CPU_COST",
                       !.costNum = num, !.costDen = den,
                       !.recommended = TRUE,
                       !.warned = (num <= 0)]

\* calibrate_parameters.py:25-129
run_benchmark(c, up) ==
    IF ~up
    THEN [c EXCEPT !.stage = "done", !.op = "run_benchmark",
                   !.raised = "OperationalError"]
    ELSE LET delta_time == c.time_large - c.time_small
             delta_rows == LARGE_BATCH - SMALL_BATCH
             measured   == [c EXCEPT !.stage = "done", !.op = "run_benchmark",
                                     !.fitted = TRUE, !.slopeNum = delta_time,
                                     !.slopeDen = delta_rows]
         IN  IF delta_time <= 0
             THEN [measured EXCEPT !.warned = TRUE]
             ELSE [measured EXCEPT !.exchange_rate = [ms |-> c.real_time,
                                                      cost |-> c.predicted_cost],
                                   !.coefficient = "C_VEC_CPU_COST",
                                   !.costNum = delta_time * c.predicted_cost,
                                   !.costDen = delta_rows * c.real_time,
                                   !.recommended = TRUE]

\* calibrate_hnsw.py:29-72: the mean of HNSW_TRIALS probe times, recommended
\* as measured
calibrate_hnsw(c, up) ==
    IF ~up
    THEN [c EXCEPT !.stage = "done", !.op = "calibrate_hnsw",
                   !.caught = "OperationalError"]
    ELSE [c EXCEPT !.stage = "done", !.op = "calibrate_hnsw",
                   !.avgNum = SumSeq(SubSeq(c.index_times, 1, HNSW_TRIALS)),
                   !.avgDen = HNSW_TRIALS,
                   !.coefficient = "COST_B_FIXED",
                   !.costNum = SumSeq(SubSeq(c.index_times, 1, HNSW_TRIALS)),
                   !.costDen = HNSW_TRIALS,
                   !.recommended = TRUE]

\* calibrate_parameters.py:131-206: the mean of FIXED_TRIALS probe times,
\* divided by the exchange rate
run_fixed_cost_experiment(c, up) ==
    IF ~up
    THEN [c EXCEPT !.stage = "done", !.op = "run_fixed_cost_experiment",
                   !.raised = "OperationalError"]
    ELSE LET total == SumSeq(SubSeq(c.index_times, 1, FIXED_TRIALS))
         IN  [c EXCEPT !.stage = "done", !.op = "run_fixed_cost_experiment",
                       !.avgNum = total, !.avgDen = FIXED_TRIALS,
                       !.exchange_rate = [ms |-> c.real_time,
                                          cost |-> c.predicted_cost],
                       !.coefficient = "COST_B_FIXED",
                       !.costNum = total * c.predicted_cost,
                       !.costDen = FIXED_TRIALS * c.real_time,
                       !.recommended = TRUE]

\* The time the store takes at size n under slope a, intercept b
TimeAt(a, b, n) == a * n + b

Measurements(a, b, dist, ref, probe) ==
    [NoCalibration EXCEPT
        !.stage = "data", !.a = a, !.b = b, !.exact = (dist.by = 0),
        !.trials = [i \in 1..Len(N_values) |->
                      [t \in 1..NUM_TRIALS |->
                         TimeAt(a, b, N_values[i])
                           + (IF i = dist.at /\ t = 1 THEN dist.by ELSE 0)]],
        !.time_small = TimeAt(a, b, SMALL_BATCH) + (IF dist.at = 1 THEN dist.by ELSE 0),
        !.time_large = TimeAt(a, b, LARGE_BATCH)
                         + (IF dist.at = Len(N_values) THEN dist.by ELSE 0),
        !.index_times = [i \in 1..HNSW_TRIALS |->
                           probe + (IF i = dist.at THEN dist.by ELSE 0)],
        !.real_time = ref.real_time, !.predicted_cost = ref.predicted_cost]

InitCalib ==
    /\ pc = "calibrating"
    /\ sql_filter_string = Unset
    /\ v_query = NoVector
    /\ decision = ""
    /\ costModel = [perRow |-> C_VEC_CPU_COST, fixed |-> COST_B_FIXED]
    /\ kCandidates = K_CANDIDATES
    /\ products = ProductRows
    /\ openConns = 0
    /\ last = Blank
    /\ queries = NoQueries
    /\ rr = NoRerank
    /\ parse = NoParse
    /\ ingest = NoIngest
    /\ calib \in { Measurements(a, b, dist, ref, probe) :
                     a \in Slopes, b \in Intercepts, dist \in Disturbances,
                     ref \in ReferenceRuns, probe \in IndexTimes }

\* Mutation of CalibFrame: the recommended coefficient is written into the
\* cost model the planner reads
CalibFrameInstalls ==
    /\ costModel' = IF calib'.recommended /\ calib'.coefficient = "C_VEC_CPU_COST"
                    THEN [costModel EXCEPT !.perRow = calib'.costNum \div calib'.costDen]
                    ELSE costModel
    /\ UNCHANGED <<pc, sql_filter_string, v_query, decision, kCandidates,
                   products, openConns, last, queries, rr, parse, ingest>>

\* A calibration run prints its result; it writes nothing the planner reads
CalibFrame ==
    UNCHANGED <<pc, sql_filter_string, v_query, decision, costModel, kCandidates,
                products, openConns, last, queries, rr, parse, ingest>>

RunCalibration(up) ==
    /\ calib.stage = "data"
    /\ calib' = run_calibration(calib, up)
    /\ CalibFrame

RunBenchmark(up) ==
    /\ calib.stage = "data"
    /\ calib' = run_benchmark(calib, up)
    /\ CalibFrame

CalibrateHnsw(up) ==
    /\ calib.stage = "data"
    /\ calib' = calibrate_hnsw(calib, up)
    /\ CalibFrame

RunFixedCostExperiment(up) ==
    /\ calib.stage = "data"
    /\ calib' = run_fixed_cost_experiment(calib, up)
    /\ CalibFrame

NextCalib ==
    \/ \E up \in BOOLEAN : RunCalibration(up)
    \/ \E up \in BOOLEAN : RunBenchmark(up)
    \/ \E up \in BOOLEAN : CalibrateHnsw(up)
    \/ \E up \in BOOLEAN : RunFixedCostExperiment(up)

SpecCalib == InitCalib /\ [][NextCalib]_vars

Fitted == calib.stage = "done" /\ calib.fitted

\* C19: whenever the fitted slope is zero or negative the calibration fails
\* with a CalibrationError and recommends no per-row cost.
C19_NonPositiveSlopeFails ==
    (Fitted /\ calib.slopeNum <= 0) =>
        /\ calib.raised = "CalibrationError"
        /\ ~calib.recommended

\* C20: on timing data generated exactly from time = a*N + b the calibration
\* recovers the slope a.
C20_RecoversSlope ==
    (Fitted /\ calib.exact) => calib.slopeNum = calib.a * calib.slopeDen

C20_Witness ==
    /\ Fitted
    /\ calib.exact
    /\ calib.op = "run_calibration"
    /\ calib.a = 2
    /\ calib.b = 30000
    /\ calib.recommended

\* A calibration run has produced a coefficient for the cost model
Produced == calib.stage = "done" /\ calib.recommended

\* The wall-clock measurement behind the coefficient: the fitted slope, or the
\* mean probe time
MeasuredNum == IF calib.fitted THEN calib.slopeNum ELSE calib.avgNum

MeasuredDen == IF calib.fitted THEN calib.slopeDen ELSE calib.avgDen

\* C21: every coefficient a calibration procedure produces is the wall-clock
\* measurement divided by the ms-per-cost-unit exchange rate.
C21_CoefficientsInCostUnits ==
    Produced =>
        /\ calib.exchange_rate # NoRate
        /\ calib.exchange_rate = [ms |-> calib.real_time, cost |-> calib.predicted_cost]
        /\ calib.costNum = MeasuredNum * calib.exchange_rate.cost
        /\ calib.costDen = MeasuredDen * calib.exchange_rate.ms

\* A calibration run that ended in an error or with a non-positive slope
Failed(c) ==
    /\ c.stage = "done"
    /\ c.caught # "" \/ c.raised # "" \/ (c.fitted /\ c.slopeNum <= 0)

\* C22: a failed calibration run leaves the cost model used for serving
\* unchanged.
C22_FailedRunKeepsModel ==
    [][(calib.stage = "data" /\ Failed(calib')) => costModel' = costModel]_vars

C22_Witness ==
    /\ Failed(calib)
    /\ calib.op = "run_calibration"
    /\ calib.slopeNum < 0
    /\ calib.recommended
    /\ costModel = [perRow |-> C_VEC_CPU_COST, fixed |-> COST_B_FIXED]

\* C23: a planner decision sends the store at most one request, an
\* estimate-only one; it runs neither the filtered query nor an executor.
C23_DecisionOnlyEstimates ==
    DecisionCall =>
        /\ Len(last.requests) <= 1
        /\ \A i \in 1..Len(last.requests) : last.requests[i] = "EXPLAIN"
        /\ last.results = <<>>

C23_Witness ==
    /\ DecisionCall
    /\ Finished
    /\ last.estimated
    /\ last.plan = "PLAN_A"
    /\ last.requests = <<"EXPLAIN">>

\* C24: no sequence of planner decisions and plan executions changes the
\* stored product rows.
C24_StoreReadOnly == [][products' = products]_vars

C24_Witness ==
    /\ pc = "main_done"
    /\ PlanBCall
    /\ Finished
    /\ last.results # <<>>
    /\ products = ProductRows

\* The executor that matches a decision
MatchingExecutor(d) == IF d = "PLAN_A" THEN "execute_plan_a" ELSE "execute_plan_b"

NearestRows(q, n) ==
    { Prefix(w, n) : w \in OrderBy({ Project(r, q) : r \in products }) }

\* C26: for each predicate the no-filter shortcut sends to vector-first,
\* running the vector-first executor with that predicate on a reachable store
\* succeeds and returns the min(limit, K, table size) nearest rows.
C26_FixedCostPlanExecutable ==
    (/\ pc = "main_done"
     /\ PlanBCall
     /\ Finished
     /\ last.up
     /\ last.filter \in NoFilterForms) =>
        /\ last.outcome = "returned"
        /\ last.caught = ""
        /\ last.results \in NearestRows(last.v, Min(PLAN_B_LIMIT, last.k))

\* C27: the predicate an executor applies to the store is the first argument
\* of the call: the rows returned are the store's answer for that argument.
C27_ExecutorFiltersByArgument ==
    (/\ ExecCall
     /\ Finished
     /\ last.limit = 0
     /\ last.up
     /\ Valid(last.filter)) =>
        /\ last.caught = ""
        /\ PlanACall => last.results \in QueryA(last.filter, last.v)
        /\ PlanBCall => last.results \in QueryB(last.filter, last.v, last.k)

\* The estimates that carry both fields
FullReplies == { x \in Replies : x.hasRows /\ x.hasCost }

\* Estimate x is no larger than estimate y in rows and in cost
Below(x, y) == x.rows <= y.rows /\ x.cost <= y.cost

\* C28: with a non-negative per-row cost and a fixed cost model the decision is
\* monotone in the estimate: filter-first for (r, c) means filter-first for
\* every estimate with no more rows and no more cost, and vector-first is
\* never flipped back by more rows or more cost.
C28_DecisionMonotone ==
    (DecisionCall /\ last.estimated /\ costModel.perRow >= 0) =>
        /\ last.plan = "PLAN_A" =>
               \A x \in FullReplies : Below(x, last.reply) => ChoosePlan(x) = "PLAN_A"
        /\ last.plan = "PLAN_B" =>
               \A y \in FullReplies : Below(last.reply, y) => ChoosePlan(y) = "PLAN_B"

C28_Witness ==
    /\ DecisionCall
    /\ last.estimated
    /\ last.plan = "PLAN_A"
    /\ \E x \in FullReplies : x # last.reply /\ Below(x, last.reply)
    /\ \E y \in FullReplies : Below(last.reply, y) /\ ChoosePlan(y) = "PLAN_B"

---------------------------------------------------------------------------
(* From prompt to decision: query_parser.get_sql_filter, then
   get_cbo_decision on the string it returns *)

InitParse ==
    /\ pc = "parsing"
    /\ sql_filter_string = Unset
    /\ v_query = NoVector
    /\ decision = ""
    /\ costModel = [perRow |-> C_VEC_CPU_COST, fixed |-> COST_B_FIXED]
    /\ kCandidates = K_CANDIDATES
    /\ products = ProductRows
    /\ openConns = 0
    /\ last = Blank
    /\ queries = NoQueries
    /\ rr = NoRerank
    /\ calib = NoCalibration
    /\ ingest = NoIngest
    /\ parse \in { [NoParse EXCEPT !.stage = "prompt", !.prompt = p] : p \in Prompts }

\* query_parser.py:98-141
ParsePrompt ==
    /\ parse.stage = "prompt"
    /\ parse' = [parse EXCEPT !.stage = "parsed",
                              !.conditions = sql_conditions(parse.prompt),
                              !.filter = get_sql_filter(parse.prompt)]
    /\ UNCHANGED <<pc, sql_filter_string, v_query, decision, costModel, kCandidates,
                   products, openConns, last, queries, rr, calib, ingest>>

\* get_cbo_decision on the parsed filter
DecideParsed(up, answers, reply) ==
    /\ parse.stage = "parsed"
    /\ last' = get_cbo_decision(parse.filter, up, answers, reply)
    /\ decision' = last'.plan
    /\ Account(last')
    /\ parse' = [parse EXCEPT !.stage = "decided"]
    /\ ModelFrame
    /\ StoreFrame
    /\ UNCHANGED <<pc, sql_filter_string, v_query, queries, rr, calib, ingest>>

NextParse ==
    \/ ParsePrompt
    \/ \E up \in BOOLEAN, answers \in BOOLEAN, reply \in Replies :
           DecideParsed(up, answers, reply)

SpecParse == InitParse /\ [][NextParse]_vars

Words(p) == { p[i] : i \in 1..Len(p) }

\* The condition's values are words of the prompt
FoundIn(c, p) ==
    IF c.column = "brand"
    THEN \E i, j \in 1..Len(p) : i <= j /\ c.name = Join(SubSeq(p, i, j), " ")
    ELSE /\ c.v1 \in Words(p)
         /\ c.op = "BETWEEN" => c.v2 \in Words(p)

ConjunctionOf(conds) ==
    IF Len(conds) = 1 THEN Render(conds[1])
    ELSE Render(conds[1]) \o " AND " \o Render(conds[2])

\* C29: when get_sql_filter finds neither a price nor a brand condition, the
\* string it returns makes get_cbo_decision return PLAN_B through the
\* no-filter shortcut, without a store round trip; every other string it
\* returns is the conjunction of the conditions it found and nothing else.
C29_ParserPlannerAgree ==
    /\ (parse.stage = "decided" /\ parse.conditions = <<>>) =>
           /\ last.outcome = "returned"
           /\ last.plan = "PLAN_B"
           /\ last.connects = 0
           /\ last.requests = <<>>
    /\ (parse.stage \in {"parsed", "decided"} /\ parse.conditions # <<>>) =>
           /\ ~IsNoFilter(parse.filter)
           /\ Len(parse.conditions) <= 2
           /\ \A i, j \in 1..Len(parse.conditions) :
                  i # j => parse.conditions[i].column # parse.conditions[j].column
           /\ \A i \in 1..Len(parse.conditions) :
                  FoundIn(parse.conditions[i], parse.prompt)
           /\ parse.filter = ConjunctionOf(parse.conditions)

C29_Witness ==
    /\ parse.stage = "decided"
    /\ parse.conditions = <<>>
    /\ {"price", "brand"} \subseteq Words(parse.prompt)
    /\ last.up
    /\ last.plan = "PLAN_B"

---------------------------------------------------------------------------
(* Bulk ingestion: input_to_db.vectorize_and_insert *)

\* input_to_db.py:45
BATCH_SIZE == 5

\* Most lines of the input file
MaxLines == 12

\* input_to_db.py:24
RECORDS_TO_PROCESS == None

\* A line of the file: a record with its image, a line that is skipped (known
\* error id, image missing), a line that is passed over without a count (no
\* uniq_id) or whose processing raises (bad JSON, unreadable image)
LineKinds == {"record", "skip", "broken"}

\* execute_batch, commit (input_to_db.py:171-172, 187-188): the rows reach the
\* store unless the statement fails or the transaction is already aborted;
\* the code never rolls back
WriteSucceeds(g, writeOk) == ~g.aborted /\ writeOk

\* input_to_db.py:165-175, the write of a full batch inside the line's try
WriteBatch(g, writeOk) ==
    IF Len(g.data_to_insert) < BATCH_SIZE THEN g
    ELSE IF WriteSucceeds(g, writeOk)
    THEN [g EXCEPT !.written = g.written \o g.data_to_insert,
                   !.insert_count = g.insert_count + Len(g.data_to_insert),
                   !.data_to_insert = <<>>]
    ELSE [g EXCEPT !.aborted = TRUE]

\* input_to_db.py:111-178, one iteration of the loop over the lines
ProcessLine(g, kind, writeOk) ==
    LET next == [g EXCEPT !.read = g.read + 1]
    IN  IF RECORDS_TO_PROCESS # None /\ g.processed_count >= RECORDS_TO_PROCESS
        THEN [g EXCEPT !.stage = "flush"]
        ELSE IF kind = "skip"
        THEN [next EXCEPT !.skip_count = g.skip_count + 1]
        ELSE IF kind = "broken"
        THEN next
        ELSE WriteBatch([next EXCEPT
                            !.data_to_insert = Append(g.data_to_insert,
                                                      g.processed_count + 1),
                            !.processed_count = g.processed_count + 1],
                        writeOk)

\* input_to_db.py:181-200, the last batch, outside the line's try
FlushLast(g, writeOk) ==
    IF g.data_to_insert = <<>> THEN [g EXCEPT !.stage = "done"]
    ELSE IF WriteSucceeds(g, writeOk)
    THEN [g EXCEPT !.stage = "done",
                   !.written = g.written \o g.data_to_insert,
                   !.insert_count = g.insert_count + Len(g.data_to_insert)]
    ELSE [g EXCEPT !.stage = "done", !.aborted = TRUE, !.caught = "Error"]

InitIngest ==
    /\ pc = "ingesting"
    /\ sql_filter_string = Unset
    /\ v_query = NoVector
    /\ decision = ""
    /\ costModel = [perRow |-> C_VEC_CPU_COST, fixed |-> COST_B_FIXED]
    /\ kCandidates = K_CANDIDATES
    /\ products = ProductRows
    /\ openConns = 0
    /\ last = Blank
    /\ queries = NoQueries
    /\ rr = NoRerank
    /\ calib = NoCalibration
    /\ parse = NoParse
    /\ ingest = [NoIngest EXCEPT !.stage = "start"]

IngestFrame ==
    UNCHANGED <<pc, sql_filter_string, v_query, decision, costModel, kCandidates,
                products, openConns, last, queries, rr, calib, parse>>

\* input_to_db.py:100-104
Connect(up) ==
    /\ ingest.stage = "start"
    /\ ingest' = IF up THEN [ingest EXCEPT !.stage = "loop"]
                 ELSE [ingest EXCEPT !.stage = "done", !.caught = "OperationalError"]
    /\ IngestFrame

ReadLine(kind, writeOk) ==
    /\ ingest.stage = "loop"
    /\ ingest.read < MaxLines
    /\ ingest' = ProcessLine(ingest, kind, writeOk)
    /\ IngestFrame

\* The file has no more lines
EndOfFile(writeOk) ==
    /\ ingest.stage \in {"loop", "flush"}
    /\ ingest' = FlushLast(ingest, writeOk)
    /\ IngestFrame

NextIngest ==
    \/ \E up \in BOOLEAN : Connect(up)
    \/ \E kind \in LineKinds, writeOk \in BOOLEAN : ReadLine(kind, writeOk)
    \/ \E writeOk \in BOOLEAN : EndOfFile(writeOk)

SpecIngest == InitIngest /\ [][NextIngest]_vars

\* C30: after every loop iteration processed_count = insert_count + the
\* records waiting in the batch and the batch holds fewer than BATCH_SIZE
\* records; at the end of a run every processed record has been written
\* exactly once, also when a batch write failed on the way.
C30_IngestionCounts ==
    /\ ingest.stage = "loop" =>
           /\ ingest.processed_count
                = ingest.insert_count + Len(ingest.data_to_insert)
           /\ Len(ingest.data_to_insert) < BATCH_SIZE
    /\ (ingest.stage = "done" /\ ingest.caught # "OperationalError") =>
           /\ ingest.insert_count = ingest.processed_count
           /\ ingest.written = [i \in 1..ingest.processed_count |-> i]

=============================================================================
